---- MODULE Spec2Model ----
(***************************************************************************)
(* pokett-mobile: the group detail screen, the home screen and their two   *)
(* modal forms, together with the HTTP API they call.                      *)
(*                                                                         *)
(* Strings are sequences of one-character strings, so that trim() and      *)
(* Number() are computed and not assumed.  A nullable value is a sequence  *)
(* of length at most one.  Every asynchronous handler that is suspended at *)
(* an await is an entry of tasks.                                          *)
(***************************************************************************)
EXTENDS Integers, Sequences, FiniteSets, Bags, TLC

VARIABLES
  route,              \* the screen that is shown
  server,             \* what the API holds
  detail,             \* the state of GroupDetailScreen
  alert,              \* the confirmation dialog of GroupDetailScreen, if shown
  addExpenseModal,    \* the state of AddExpenseModal
  home,               \* the state of HomeScreen
  createGroupModal,   \* the state of CreateGroupModal
  tasks,              \* the handlers suspended at an await
  ev                  \* what the last step did, for the properties

vars ==
  <<route, server, detail, alert, addExpenseModal, home, createGroupModal,
    tasks, ev>>

\* a session shows one screen
HomeRoute == "/"
DetailRoute == "/group/[id]"

detailVars == <<detail, alert, addExpenseModal>>
homeVars == <<home, createGroupModal>>

\* ------------------------------------------------------------------ bounds
\* handlers that may be suspended at an await at the same time
MaxTasks == 1
\* largest record identifier the server hands out
MaxRecordId == 3
\* longest list of records the server holds when the month buckets are shown
MaxListLen == 3
\* requests of CreateGroupModal for members that may be unanswered at the
\* same time
MaxMemberTasks == 2
\* largest member identifier the server hands out
MaxMemberId == 4
\* most records added to the ledger of the balances
MaxLedgerLen == 2
\* focus fetches that may be started while another handler is suspended
MaxFocusFetches == 1

\* ----------------------------------------------------------------- strings
Null == "null"

IsSpace(c) == c = " "

RECURSIVE TrimStart(_)
TrimStart(s) ==
  IF s # <<>> /\ IsSpace(Head(s)) THEN TrimStart(Tail(s)) ELSE s

RECURSIVE TrimEnd(_)
TrimEnd(s) ==
  IF s # <<>> /\ IsSpace(s[Len(s)]) THEN TrimEnd(SubSeq(s, 1, Len(s) - 1)) ELSE s

\* String.prototype.trim
Trim(s) == TrimEnd(TrimStart(s))

Digits == {"0", "1", "2", "3", "4", "5", "6", "7", "8", "9"}

DigitValue(c) ==
  CASE c = "0" -> 0 [] c = "1" -> 1 [] c = "2" -> 2 [] c = "3" -> 3
    [] c = "4" -> 4 [] c = "5" -> 5 [] c = "6" -> 6 [] c = "7" -> 7
    [] c = "8" -> 8 [] c = "9" -> 9

RECURSIVE DecimalValue(_)
DecimalValue(s) ==
  IF s = <<>> THEN 0
  ELSE 10 * DecimalValue(SubSeq(s, 1, Len(s) - 1)) + DigitValue(s[Len(s)])

IsDigits(s) == s # <<>> /\ \A i \in 1..Len(s) : s[i] \in Digits

InfinityLiteral == <<"I", "n", "f", "i", "n", "i", "t", "y">>

\* JavaScript numbers: a finite value, an infinity or NaN
Num(n) == [k |-> "num", v |-> n]
Inf(sign) == [k |-> "inf", v |-> sign]
NaN == [k |-> "nan", v |-> 0]
JsonNull == [k |-> "null", v |-> 0]

\* Number(string): surrounding white space is dropped, the empty string is
\* 0, an optionally signed run of digits is its value, an optionally signed
\* Infinity is infinite, anything else is NaN
Number(s) ==
  LET t == Trim(s)
      signed == t # <<>> /\ Head(t) \in {"-", "+"}
      sign == IF t # <<>> /\ Head(t) = "-" THEN -1 ELSE 1
      u == IF signed THEN Tail(t) ELSE t
  IN  IF t = <<>> THEN Num(0)
      ELSE IF u = InfinityLiteral THEN Inf(sign)
      ELSE IF IsDigits(u) THEN Num(sign * DecimalValue(u))
      ELSE NaN

isNaN(x) == x.k = "nan"

\* JSON.stringify writes NaN and the infinities as null
JsonNumber(x) == IF x.k = "num" THEN x ELSE JsonNull

LowerChar(c) == CASE c = "A" -> "a" [] c = "B" -> "b" [] OTHER -> c

RECURSIVE ToLowerCase(_)
\* String.prototype.toLowerCase
ToLowerCase(s) ==
  IF s = <<>> THEN <<>> ELSE <<LowerChar(Head(s))>> \o ToLowerCase(Tail(s))

\* String.prototype.includes
StringIncludes(s, q) ==
  \E i \in 0..(Len(s) - Len(q)) : SubSeq(s, i + 1, i + Len(q)) = q

\* ------------------------------------------------------------- sequences
Range(s) == {s[i] : i \in 1..Len(s)}

Includes(s, x) == \E i \in 1..Len(s) : s[i] = x

RECURSIVE Filter(_, _)
\* Array.prototype.filter((m) => m !== x)
Filter(s, x) ==
  IF s = <<>> THEN <<>>
  ELSE IF Head(s) # x THEN <<Head(s)>> \o Filter(Tail(s), x)
  ELSE Filter(Tail(s), x)

\* ---------------------------------------------------------------- the API
\* Member names as the server returns them; the second one ends in a space
\* (CreateGroupModal sends the search text to members.create as typed)
NameA == <<"a">>
NameB == <<"b", " ">>
GroupMembers == <<NameA, NameB>>

\* Expense.createdAt, as far as the screen's month buckets read it: the
\* year and the month of the instant
At(y, m) == [year |-> y, month |-> m]

\* the month in which the session takes place
ServerNow == At(2025, 2)

\* The records of the group when the screen is opened: one expense and one
\* settlement
InitialExpenses ==
  << [id |-> 1, type |-> "expense", description |-> <<"x">>, amount |-> 3,
      paidBy |-> NameA, splitBetween |-> <<NameA, NameB>>,
      createdAt |-> At(2025, 1)],
     [id |-> 2, type |-> "settlement", description |-> <<>>, amount |-> 2,
      paidBy |-> NameB, splitBetween |-> <<NameA>>,
      createdAt |-> ServerNow] >>

RECURSIVE ServerTotal(_)
\* Group.totalExpenses: the sum of the amounts of the records of type expense
ServerTotal(list) ==
  IF list = <<>> THEN 0
  ELSE (IF Head(list).type = "expense" THEN Head(list).amount ELSE 0)
       + ServerTotal(Tail(list))

\* GET /groups/:id
ServerGroup(srv) ==
  [members |-> srv.members, totalExpenses |-> ServerTotal(srv.expenses)]

\* POST /groups/:id/expenses: the error the server answers with, or Null
ServerAddRecordError(srv, data) ==
  IF ~(data.amount.k = "num" /\ data.amount.v > 0) THEN "InvalidAmountError"
  ELSE IF Trim(data.description) = <<>> THEN "MissingDescriptionError"
  ELSE IF ~Includes(srv.members, data.paidBy) THEN "UnknownMemberError"
  ELSE IF data.splitBetween = <<>> THEN "EmptySplitError"
  ELSE IF ~(Range(data.splitBetween) \subseteq Range(srv.members))
    THEN "UnknownMemberError"
  ELSE Null

\* the record the server stores for an accepted POST
ServerNewRecord(srv, data) ==
  [id |-> srv.nextId, type |-> "expense", description |-> data.description,
   amount |-> data.amount.v, paidBy |-> data.paidBy,
   splitBetween |-> data.splitBetween, createdAt |-> ServerNow]

ServerAddRecord(srv, data) ==
  [srv EXCEPT !.expenses = Append(@, ServerNewRecord(srv, data)),
              !.nextId = @ + 1]

RECURSIVE RemoveById(_, _)
RemoveById(list, id) ==
  IF list = <<>> THEN <<>>
  ELSE IF Head(list).id = id THEN RemoveById(Tail(list), id)
  ELSE <<Head(list)>> \o RemoveById(Tail(list), id)

HasId(list, id) == \E i \in 1..Len(list) : list[i].id = id

\* DELETE /groups/:id/expenses/:expenseId
ServerRemoveRecord(srv, id) == [srv EXCEPT !.expenses = RemoveById(@, id)]

\* handleResponse: a response that is not ok becomes an Error whose message
\* is the server's message or 'Something went wrong'; fetch itself rejects
\* when the network fails
NetworkError == "Network request failed"

\* the states of an awaited request
Pending == [st |-> "pending", val |-> <<>>, msg |-> Null]
Rejected(m) == [st |-> "fail", val |-> <<>>, msg |-> m]
Resolved(v) == [st |-> "ok", val |-> <<v>>, msg |-> Null]

\* ------------------------------------------------------------------ tasks
\* tasks is the bag of the suspended handlers
Suspended == BagToSet(tasks)

\* suspend a handler at its await
Spawn(t) ==
  /\ BagCardinality(tasks) < MaxTasks
  /\ tasks' = tasks (+) SetToBag({t})

\* a fetch started on focus
IsFocusFetch(t) ==
  t.kind = "fetchGroups" \/ (t.kind = "fetchData" /\ ~t.close)

\* suspend a focus fetch at its await while another handler is suspended
SpawnBeside(t) ==
  /\ tasks # EmptyBag
  /\ BagCardinality(tasks) < MaxTasks + MaxFocusFetches
  /\ Cardinality({u \in BagToSet(tasks) : IsFocusFetch(u)}) < MaxFocusFetches
  /\ tasks' = tasks (+) SetToBag({t})

\* handler t continues as handler u
Continue(t, u) == tasks' = (tasks (-) SetToBag({t})) (+) SetToBag({u})

\* handler t returns
Return(t) == tasks' = tasks (-) SetToBag({t})

NoEv == [tag |-> "none"]

\* ------------------------------------------------------ GroupDetailScreen
\* the screen renders its list, its add button and the modal only when it
\* is not loading, has no error and holds a group
MainView(d) == ~d.isLoading /\ d.error = Null /\ d.group # <<>>

InitialForm ==
  [description |-> <<>>, amount |-> <<>>, paidBy |-> <<>>,
   selectedMembers |-> <<>>, error |-> Null]

\* AddExpenseModal as it would be if its effect depended on [visible] only
RenderVisibleOnly(d0, d1, f, newMembers) ==
  IF ~MainView(d1) THEN InitialForm
  ELSE IF d1.isAddExpenseModalVisible
          /\ (~MainView(d0) \/ ~d0.isAddExpenseModalVisible)
    THEN [f EXCEPT !.selectedMembers = d1.group[1].members]
  ELSE f

\* AddExpenseModal after the screen went from d0 to d1: it exists only in
\* the main view; its effect on [visible, members] selects every member
\* when it is visible and either of the two changed (newMembers: setGroup
\* stored a new response)
Render(d0, d1, f, newMembers) ==
  IF ~MainView(d1) THEN InitialForm
  ELSE IF d1.isAddExpenseModalVisible
          /\ (~MainView(d0) \/ ~d0.isAddExpenseModalVisible \/ newMembers)
    THEN [f EXCEPT !.selectedMembers = d1.group[1].members]
  ELSE f

\* useFocusEffect: the screen comes into focus and calls fetchData
Focus ==
  /\ route = DetailRoute
  /\ Spawn([kind |-> "fetchData", g |-> Pending, e |-> Pending,
            close |-> FALSE, pre |-> <<>>])
  /\ ev' = NoEv
  /\ UNCHANGED <<server, detail, alert, addExpenseModal>>
  /\ UNCHANGED <<route, homeVars>>

\* useFocusEffect while another handler of the screen is suspended
FocusDuring ==
  /\ route = DetailRoute
  /\ SpawnBeside([kind |-> "fetchData", g |-> Pending, e |-> Pending,
                  close |-> FALSE, pre |-> <<>>])
  /\ ev' = NoEv
  /\ UNCHANGED <<server, detail, alert, addExpenseModal>>
  /\ UNCHANGED <<route, homeVars>>

\* api.groups.getById is answered, or fails
ServeGetById(t) ==
  /\ t.kind = "fetchData"
  /\ t.g.st = "pending"
  /\ \E r \in {Resolved(ServerGroup(server)), Rejected(NetworkError)} :
       Continue(t, [t EXCEPT !.g = r])
  /\ ev' = NoEv
  /\ UNCHANGED <<server, detail, alert, addExpenseModal>>
  /\ UNCHANGED <<route, homeVars>>

\* api.groups.getExpenses is answered, or fails
ServeGetExpenses(t) ==
  /\ t.kind \in {"fetchData", "deleteRefresh"}
  /\ t.e.st = "pending"
  /\ \E r \in {Resolved(server.expenses), Rejected(NetworkError)} :
       Continue(t, [t EXCEPT !.e = r])
  /\ ev' = NoEv
  /\ UNCHANGED <<server, detail, alert, addExpenseModal>>
  /\ UNCHANGED <<route, homeVars>>

\* fetchData as it would be if a success cleared the error
FetchDataResultClearsError(d, t) ==
  IF t.g.st = "ok" /\ t.e.st = "ok"
    THEN [d EXCEPT !.group = t.g.val, !.expenses = t.e.val[1],
                   !.error = Null, !.isLoading = FALSE]
    ELSE [d EXCEPT !.error = IF t.g.st = "fail" THEN t.g.msg ELSE t.e.msg,
                   !.isLoading = FALSE]

\* fetchData as it would be if it cleared isLoading in the try block only
FetchDataResultNoFinally(d, t) ==
  IF t.g.st = "ok" /\ t.e.st = "ok"
    THEN [d EXCEPT !.group = t.g.val, !.expenses = t.e.val[1],
                   !.isLoading = FALSE]
    ELSE [d EXCEPT !.error = IF t.g.st = "fail" THEN t.g.msg ELSE t.e.msg]

\* fetchData as it would be if it stored whichever answers arrived
FetchDataResultPartial(d, t) ==
  IF t.g.st = "ok" /\ t.e.st = "ok"
    THEN [d EXCEPT !.group = t.g.val, !.expenses = t.e.val[1],
                   !.isLoading = FALSE]
    ELSE [d EXCEPT !.error = IF t.g.st = "fail" THEN t.g.msg ELSE t.e.msg,
                   !.expenses = IF t.e.st = "ok" THEN t.e.val[1] ELSE @,
                   !.isLoading = FALSE]

\* the state fetchData leaves: Promise.all resolved with both answers, or
\* rejected with the first failure
FetchDataResult(d, t) ==
  IF t.g.st = "ok" /\ t.e.st = "ok"
    THEN [d EXCEPT !.group = t.g.val, !.expenses = t.e.val[1],
                   !.isLoading = FALSE]
    ELSE [d EXCEPT !.error = IF t.g.st = "fail" THEN t.g.msg ELSE t.e.msg,
                   !.isLoading = FALSE]

\* fetchData continues after its await; when handleAddExpense called it,
\* handleAddExpense then closes the modal.  The updates of fetchData and
\* the closing are rendered together or one after the other.
FetchDataDone(t) ==
  /\ t.kind = "fetchData"
  /\ LET ok == t.g.st = "ok" /\ t.e.st = "ok"
         d1 == FetchDataResult(detail, t)
         d2 == IF t.close THEN [d1 EXCEPT !.isAddExpenseModalVisible = FALSE]
               ELSE d1
     IN  /\ ok \/ t.g.st = "fail" \/ t.e.st = "fail"
         /\ detail' = d2
         /\ \E batched \in BOOLEAN :
              addExpenseModal' =
                IF batched THEN Render(detail, d2, addExpenseModal, ok)
                ELSE Render(d1, d2, Render(detail, d1, addExpenseModal, ok),
                            FALSE)
         /\ ev' = IF ~ok
                    THEN [tag |-> "apiFailed", call |-> "fetchData",
                          detail |-> detail, home |-> home, task |-> t]
                  ELSE IF t.close
                    THEN [tag |-> "addExpenseDone", pre |-> t.pre[1]]
                  ELSE [tag |-> "fetched",
                        reset |-> addExpenseModal'.selectedMembers
                                    # addExpenseModal.selectedMembers]
  /\ Return(t)
  /\ UNCHANGED <<server, alert>>
  /\ UNCHANGED <<route, homeVars>>

\* ------------------------------------------------------- AddExpenseModal
FormOpen ==
  /\ route = DetailRoute
  /\ MainView(detail) /\ detail.isAddExpenseModalVisible /\ alert = <<>>

\* the New Expense button
OpenModal ==
  /\ route = DetailRoute
  /\ MainView(detail) /\ ~detail.isAddExpenseModalVisible /\ alert = <<>>
  /\ detail' = [detail EXCEPT !.isAddExpenseModalVisible = TRUE]
  /\ addExpenseModal' = Render(detail, detail', addExpenseModal, FALSE)
  /\ ev' = NoEv
  /\ UNCHANGED <<server, alert, tasks>>
  /\ UNCHANGED <<route, homeVars>>

\* onClose
CloseModal ==
  /\ FormOpen
  /\ detail' = [detail EXCEPT !.isAddExpenseModalVisible = FALSE]
  /\ addExpenseModal' = Render(detail, detail', addExpenseModal, FALSE)
  /\ ev' = NoEv
  /\ UNCHANGED <<server, alert, tasks>>
  /\ UNCHANGED <<route, homeVars>>

SetDescription(s) ==
  /\ FormOpen
  /\ addExpenseModal.description # s
  /\ addExpenseModal' = [addExpenseModal EXCEPT !.description = s]
  /\ ev' = NoEv
  /\ UNCHANGED <<server, detail, alert, tasks>>
  /\ UNCHANGED <<route, homeVars>>

SetAmount(s) ==
  /\ FormOpen
  /\ addExpenseModal.amount # s
  /\ addExpenseModal' = [addExpenseModal EXCEPT !.amount = s]
  /\ ev' = NoEv
  /\ UNCHANGED <<server, detail, alert, tasks>>
  /\ UNCHANGED <<route, homeVars>>

\* an item of the paid-by dropdown, which lists the members prop
SetPaidBy(m) ==
  /\ FormOpen
  /\ Includes(detail.group[1].members, m)
  /\ addExpenseModal.paidBy # m
  /\ addExpenseModal' = [addExpenseModal EXCEPT !.paidBy = m]
  /\ ev' = NoEv
  /\ UNCHANGED <<server, detail, alert, tasks>>
  /\ UNCHANGED <<route, homeVars>>

\* handleToggleMember on an item of the split-between list
ToggleMember(prev, member) ==
  IF Includes(prev, member) THEN Filter(prev, member)
  ELSE Append(prev, member)

HandleToggleMember(m) ==
  /\ FormOpen
  /\ Includes(detail.group[1].members, m)
  /\ addExpenseModal' =
       [addExpenseModal EXCEPT !.selectedMembers = ToggleMember(@, m)]
  /\ ev' = NoEv
  /\ UNCHANGED <<server, detail, alert, tasks>>
  /\ UNCHANGED <<route, homeVars>>

\* handleSubmit as it would be with the amount checked first
SubmitErrorAmountFirst(f) ==
  IF Trim(f.amount) = <<>> \/ isNaN(Number(f.amount))
    THEN "Please enter a valid amount"
  ELSE IF Trim(f.description) = <<>> THEN "Please enter a description"
  ELSE IF Trim(f.paidBy) = <<>> THEN "Please select who paid"
  ELSE IF Len(f.selectedMembers) = 0
    THEN "Please select at least one member to split with"
  ELSE Null

\* handleSubmit as it would be without the check of the split list
SubmitErrorNoSplitCheck(f) ==
  IF Trim(f.description) = <<>> THEN "Please enter a description"
  ELSE IF Trim(f.amount) = <<>> \/ isNaN(Number(f.amount))
    THEN "Please enter a valid amount"
  ELSE IF Trim(f.paidBy) = <<>> THEN "Please select who paid"
  ELSE Null

\* the checks of handleSubmit in their order: the message of the first one
\* that fails, or Null
SubmitError(f) ==
  IF Trim(f.description) = <<>> THEN "Please enter a description"
  ELSE IF Trim(f.amount) = <<>> \/ isNaN(Number(f.amount))
    THEN "Please enter a valid amount"
  ELSE IF Trim(f.paidBy) = <<>> THEN "Please select who paid"
  ELSE IF Len(f.selectedMembers) = 0
    THEN "Please select at least one member to split with"
  ELSE Null

\* handleSubmit as it would be if it passed the description as typed
SubmitArgsUntrimmed(f) ==
  [description |-> f.description, amount |-> Number(f.amount),
   paidBy |-> Trim(f.paidBy), splitBetween |-> f.selectedMembers]

\* the arguments handleSubmit passes to onSubmit
SubmitArgs(f) ==
  [description |-> Trim(f.description), amount |-> Number(f.amount),
   paidBy |-> Trim(f.paidBy), splitBetween |-> f.selectedMembers]

\* the body of the POST: JSON.stringify of the arguments
CreateExpenseData(a) ==
  [description |-> a.description, amount |-> JsonNumber(a.amount),
   paidBy |-> a.paidBy, splitBetween |-> a.splitBetween]

\* handleSubmit as it would be if a failed check also cleared the fields
SubmitRejectedClears(f) == [InitialForm EXCEPT !.error = SubmitError(f)]

\* the form after a failed check
SubmitRejected(f) == [f EXCEPT !.error = SubmitError(f)]

\* handleSubmit as it would be if it kept the fields after onSubmit
SubmitAcceptedKeeps(f) == [f EXCEPT !.error = Null]

\* the form after onSubmit was called
SubmitAccepted(f) == InitialForm

\* handleSubmit, and handleAddExpense up to its first await
HandleSubmit ==
  /\ FormOpen
  /\ IF SubmitError(addExpenseModal) # Null
       THEN /\ addExpenseModal' = SubmitRejected(addExpenseModal)
            /\ ev' = [tag |-> "submitRejected", form |-> addExpenseModal,
                      tasks |-> tasks]
            /\ UNCHANGED tasks
       ELSE /\ Spawn([kind |-> "createExpense",
                      data |-> CreateExpenseData(SubmitArgs(addExpenseModal)),
                      pre |-> <<[entered |->
                                   [amount |-> addExpenseModal.amount,
                                    paidBy |-> addExpenseModal.paidBy,
                                    splitBetween |->
                                      addExpenseModal.selectedMembers],
                                 shown |-> detail.group[1].totalExpenses]>>])
            /\ addExpenseModal' = SubmitAccepted(addExpenseModal)
            /\ ev' = [tag |-> "createExpense",
                      data |-> CreateExpenseData(SubmitArgs(addExpenseModal)),
                      form |-> addExpenseModal,
                      members |-> detail.group[1].members]
  /\ UNCHANGED <<server, detail, alert>>
  /\ UNCHANGED <<route, homeVars>>

\* handleAddExpense after its first await: the POST was answered.  A failure
\* is caught and stored; after a success fetchData is called.
ServeCreateExpense(t) ==
  /\ t.kind = "createExpense"
  /\ LET refusal == ServerAddRecordError(server, t.data)
     IN  \/ /\ refusal = Null
            /\ server.nextId <= MaxRecordId
            /\ server' = ServerAddRecord(server, t.data)
            /\ Continue(t,
                 [kind |-> "fetchData", g |-> Pending, e |-> Pending,
                  close |-> TRUE,
                  pre |-> <<[entered |-> t.pre[1].entered,
                             shown |-> t.pre[1].shown, data |-> t.data,
                             created |-> ServerNewRecord(server, t.data)]>>])
            /\ ev' = NoEv
            /\ UNCHANGED <<detail, addExpenseModal>>
         \/ /\ \E m \in {NetworkError} \cup ({refusal} \ {Null}) :
                 detail' = [detail EXCEPT !.error = m]
            /\ addExpenseModal' = Render(detail, detail', addExpenseModal, FALSE)
            /\ Return(t)
            /\ ev' = [tag |-> "apiFailed", call |-> "createExpense",
                      detail |-> detail, home |-> home]
            /\ UNCHANGED server
  /\ UNCHANGED alert
  /\ UNCHANGED <<route, homeVars>>

\* handleDeleteExpense as it would be if it deleted without asking
PressTrashDeletes(x) ==
  /\ route = DetailRoute
  /\ MainView(detail) /\ ~detail.isAddExpenseModalVisible /\ alert = <<>>
  /\ Includes(detail.expenses, x)
  /\ Spawn([kind |-> "deleteExpense", expenseId |-> x.id,
            pre |-> <<[expense |-> x,
                       shown |-> detail.group[1].totalExpenses]>>])
  /\ ev' = [tag |-> "deleteExpense", expenseId |-> x.id]
  /\ UNCHANGED <<server, detail, alert, addExpenseModal>>
  /\ UNCHANGED <<route, homeVars>>

\* the trash button behind a swiped row: handleDeleteExpense shows the alert
PressTrash(x) ==
  /\ route = DetailRoute
  /\ MainView(detail) /\ ~detail.isAddExpenseModalVisible /\ alert = <<>>
  /\ Includes(detail.expenses, x)
  /\ alert' = <<[expenseId |-> x.id, expense |-> x]>>
  /\ ev' = NoEv
  /\ UNCHANGED <<server, detail, addExpenseModal, tasks>>
  /\ UNCHANGED <<route, homeVars>>

\* the Cancel button of the alert
AlertCancel ==
  /\ alert # <<>>
  /\ alert' = <<>>
  /\ ev' = NoEv
  /\ UNCHANGED <<server, detail, addExpenseModal, tasks>>
  /\ UNCHANGED <<route, homeVars>>

\* the Delete button of the alert: onPress up to its first await
AlertDelete ==
  /\ alert # <<>>
  /\ Spawn([kind |-> "deleteExpense", expenseId |-> alert[1].expenseId,
            pre |-> <<[expense |-> alert[1].expense,
                       shown |-> detail.group[1].totalExpenses]>>])
  /\ alert' = <<>>
  /\ ev' = [tag |-> "deleteExpense", expenseId |-> alert[1].expenseId]
  /\ UNCHANGED <<server, detail, addExpenseModal>>
  /\ UNCHANGED <<route, homeVars>>

\* onPress after its first await: the DELETE was answered.  A failure is
\* caught and stored; after a success the expenses are requested again.
ServeDeleteExpense(t) ==
  /\ t.kind = "deleteExpense"
  /\ LET found == HasId(server.expenses, t.expenseId)
     IN  \/ /\ found
            /\ server' = ServerRemoveRecord(server, t.expenseId)
            /\ Continue(t,
                 [kind |-> "deleteRefresh", e |-> Pending,
                  expenseId |-> t.expenseId,
                  pre |-> <<[expense |-> t.pre[1].expense,
                             shown |-> t.pre[1].shown,
                             kept |-> server'.expenses]>>])
            /\ ev' = NoEv
            /\ UNCHANGED <<detail, addExpenseModal>>
         \/ /\ \E m \in {NetworkError}
                          \cup (IF found THEN {} ELSE {"RecordNotFoundError"}) :
                 detail' = [detail EXCEPT !.error = m]
            /\ addExpenseModal' = Render(detail, detail', addExpenseModal, FALSE)
            /\ Return(t)
            /\ ev' = [tag |-> "apiFailed", call |-> "deleteExpense",
                      detail |-> detail, home |-> home]
            /\ UNCHANGED server
  /\ UNCHANGED alert
  /\ UNCHANGED <<route, homeVars>>

\* onPress as it would be if it did not store the answer
DeleteRefreshResultStale(d, t) ==
  IF t.e.st = "ok" THEN d ELSE [d EXCEPT !.error = t.e.msg]

\* the state onPress leaves after the second await
DeleteRefreshResult(d, t) ==
  IF t.e.st = "ok" THEN [d EXCEPT !.expenses = t.e.val[1]]
  ELSE [d EXCEPT !.error = t.e.msg]

\* onPress after its second await
DeleteRefreshDone(t) ==
  /\ t.kind = "deleteRefresh"
  /\ t.e.st # "pending"
  /\ detail' = DeleteRefreshResult(detail, t)
  /\ addExpenseModal' = Render(detail, detail', addExpenseModal, FALSE)
  /\ ev' = IF t.e.st = "ok"
             THEN [tag |-> "deleteDone", expenseId |-> t.expenseId,
                   pre |-> t.pre[1]]
             ELSE [tag |-> "apiFailed", call |-> "getExpenses",
                   detail |-> detail, home |-> home]
  /\ Return(t)
  /\ UNCHANGED <<server, alert>>
  /\ UNCHANGED <<route, homeVars>>

\* -------------------------------------------------------------- HomeScreen
\* largest group identifier the server hands out
MaxGroupId == 3

\* the groups and the members the server holds when the app is opened
InitialGroups ==
  << [id |-> 1, name |-> <<"g">>, members |-> GroupMembers,
      totalExpenses |-> ServerTotal(InitialExpenses)] >>
InitialMembers == << [id |-> 1, name |-> NameA], [id |-> 2, name |-> NameB] >>

\* POST /groups
ServerNewGroup(srv, data) ==
  [id |-> srv.nextGroupId, name |-> data.name, members |-> data.members,
   totalExpenses |-> 0]

ServerCreateGroup(srv, data) ==
  [srv EXCEPT !.groups = Append(@, ServerNewGroup(srv, data)),
              !.nextGroupId = @ + 1]

\* the screen renders its list, its add button and the modal only when it
\* is not loading and has no error
HomeMainView(h) == ~h.isLoading /\ h.error = Null

InitialGroupForm ==
  [name |-> <<>>, selectedMembers |-> <<>>, error |-> Null,
   allMembers |-> <<>>, searchQuery |-> <<>>, suggestions |-> <<>>,
   showSuggestions |-> FALSE]

RECURSIVE FilterMembers(_, _)
\* allMembers.filter: the members whose name contains the query, both
\* in lower case
FilterMembers(all, query) ==
  IF all = <<>> THEN <<>>
  ELSE (IF StringIncludes(ToLowerCase(Head(all).name), ToLowerCase(query))
          THEN <<Head(all)>> ELSE <<>>)
       \o FilterMembers(Tail(all), query)

\* the effect of CreateGroupModal on [searchQuery, allMembers]
Suggest(f) ==
  IF Trim(f.searchQuery) # <<>>
    THEN [f EXCEPT !.suggestions = FilterMembers(f.allMembers, f.searchQuery),
                   !.showSuggestions = TRUE]
    ELSE [f EXCEPT !.suggestions = <<>>, !.showSuggestions = FALSE]

\* useFocusEffect: the screen comes into focus and calls fetchGroups
FocusHome ==
  /\ route = HomeRoute
  /\ Spawn([kind |-> "fetchGroups", r |-> Pending])
  /\ ev' = NoEv
  /\ UNCHANGED <<route, server, detailVars, homeVars>>

\* useFocusEffect while another handler of the screen is suspended
FocusHomeDuring ==
  /\ route = HomeRoute
  /\ SpawnBeside([kind |-> "fetchGroups", r |-> Pending])
  /\ ev' = NoEv
  /\ UNCHANGED <<route, server, detailVars, homeVars>>

\* api.groups.getAll is answered, or fails
ServeGetAll(t) ==
  /\ t.kind = "fetchGroups"
  /\ t.r.st = "pending"
  /\ \E r \in {Resolved(server.groups), Rejected(NetworkError)} :
       Continue(t, [t EXCEPT !.r = r])
  /\ ev' = NoEv
  /\ UNCHANGED <<route, server, detailVars, homeVars>>

\* the state fetchGroups leaves
FetchGroupsResult(h, t) ==
  IF t.r.st = "ok" THEN [h EXCEPT !.groups = t.r.val[1], !.isLoading = FALSE]
  ELSE [h EXCEPT !.error = t.r.msg, !.isLoading = FALSE]

\* fetchGroups continues after its await.  When the main view appears,
\* CreateGroupModal is mounted and calls fetchMembers; when it disappears,
\* the modal and its state are gone.
FetchGroupsDone(t) ==
  /\ t.kind = "fetchGroups"
  /\ t.r.st # "pending"
  /\ home' = FetchGroupsResult(home, t)
  /\ createGroupModal' =
       IF HomeMainView(home') THEN createGroupModal ELSE InitialGroupForm
  /\ tasks' = IF ~HomeMainView(home) /\ HomeMainView(home')
                THEN (tasks (-) SetToBag({t}))
                     (+) SetToBag({[kind |-> "fetchMembers", r |-> Pending]})
                ELSE tasks (-) SetToBag({t})
  /\ ev' = IF t.r.st = "ok" THEN [tag |-> "fetched", reset |-> FALSE]
           ELSE [tag |-> "apiFailed", call |-> "fetchGroups",
                 detail |-> detail, home |-> home]
  /\ UNCHANGED <<route, server, detailVars>>

\* api.members.getAll is answered, or fails
ServeGetMembers(t) ==
  /\ t.kind = "fetchMembers"
  /\ t.r.st = "pending"
  /\ \E r \in {Resolved(server.allMembers), Rejected(NetworkError)} :
       Continue(t, [t EXCEPT !.r = r])
  /\ ev' = NoEv
  /\ UNCHANGED <<route, server, detailVars, homeVars>>

\* fetchMembers continues after its await; a failure is only logged
FetchMembersDone(t) ==
  /\ t.kind = "fetchMembers"
  /\ t.r.st # "pending"
  /\ createGroupModal' =
       IF HomeMainView(home) /\ t.r.st = "ok"
         THEN Suggest([createGroupModal EXCEPT !.allMembers = t.r.val[1]])
         ELSE createGroupModal
  /\ Return(t)
  /\ ev' = NoEv
  /\ UNCHANGED <<route, server, detailVars, home>>

\* the New Group button
OpenCreateModal ==
  /\ route = HomeRoute
  /\ HomeMainView(home) /\ ~home.isCreateModalVisible
  /\ home' = [home EXCEPT !.isCreateModalVisible = TRUE]
  /\ ev' = NoEv
  /\ UNCHANGED <<route, server, detailVars, createGroupModal, tasks>>

GroupFormOpen ==
  route = HomeRoute /\ HomeMainView(home) /\ home.isCreateModalVisible

\* onClose
CloseCreateModal ==
  /\ GroupFormOpen
  /\ home' = [home EXCEPT !.isCreateModalVisible = FALSE]
  /\ ev' = NoEv
  /\ UNCHANGED <<route, server, detailVars, createGroupModal, tasks>>

\* ------------------------------------------------------ CreateGroupModal
SetName(s) ==
  /\ GroupFormOpen
  /\ createGroupModal.name # s
  /\ createGroupModal' = [createGroupModal EXCEPT !.name = s]
  /\ ev' = NoEv
  /\ UNCHANGED <<route, server, detailVars, home, tasks>>

SetSearchQuery(s) ==
  /\ GroupFormOpen
  /\ createGroupModal.searchQuery # s
  /\ createGroupModal' = Suggest([createGroupModal EXCEPT !.searchQuery = s])
  /\ ev' = NoEv
  /\ UNCHANGED <<route, server, detailVars, home, tasks>>

\* the form after handleSelectMember; the effect runs when the query changed
SelectMember(f, member) ==
  LET g == [f EXCEPT !.selectedMembers =
                       IF ~Includes(@, member.name) THEN Append(@, member.name)
                       ELSE @,
                     !.searchQuery = <<>>,
                     !.showSuggestions = FALSE]
  IN  IF f.searchQuery # <<>> THEN Suggest(g) ELSE g

\* an item of the suggestions list
HandleSelectMember(member) ==
  /\ GroupFormOpen
  /\ createGroupModal.showSuggestions
  /\ Includes(createGroupModal.suggestions, member)
  /\ createGroupModal' = SelectMember(createGroupModal, member)
  /\ ev' = NoEv
  /\ UNCHANGED <<route, server, detailVars, home, tasks>>

\* the remove button of a member tag
HandleRemoveMember(memberToRemove) ==
  /\ GroupFormOpen
  /\ Includes(createGroupModal.selectedMembers, memberToRemove)
  /\ createGroupModal' =
       [createGroupModal EXCEPT !.selectedMembers = Filter(@, memberToRemove)]
  /\ ev' = NoEv
  /\ UNCHANGED <<route, server, detailVars, home, tasks>>

\* onFocus of the search field
SearchFocus ==
  /\ GroupFormOpen
  /\ ~createGroupModal.showSuggestions
  /\ createGroupModal' = [createGroupModal EXCEPT !.showSuggestions = TRUE]
  /\ ev' = NoEv
  /\ UNCHANGED <<route, server, detailVars, home, tasks>>

\* POST /members
ServerNewMember(srv, name) == [id |-> srv.nextMemberId, name |-> name]

ServerCreateMember(srv, name) ==
  [srv EXCEPT !.allMembers = Append(@, ServerNewMember(srv, name)),
              !.nextMemberId = @ + 1]

\* the requests for members that are unanswered
MemberTasks ==
  {t \in Suspended : t.kind \in {"fetchMembers", "createMember"}}

RECURSIVE CountTasks(_)
CountTasks(ts) ==
  IF ts = {} THEN 0
  ELSE LET t == CHOOSE u \in ts : TRUE
       IN  CopiesIn(t, tasks) + CountTasks(ts \ {t})

\* the 'Create "..."' item, shown when the suggestions list is shown and
\* empty: handleCreateMember up to its await.  The handler keeps the
\* selectedMembers and allMembers of the render it was created in.
HandleCreateMember ==
  /\ GroupFormOpen
  /\ createGroupModal.showSuggestions
  /\ createGroupModal.suggestions = <<>>
  /\ CountTasks(MemberTasks) < MaxMemberTasks
  /\ tasks' = tasks (+) SetToBag({[kind |-> "createMember",
                                   name |-> createGroupModal.searchQuery,
                                   selectedMembers |->
                                     createGroupModal.selectedMembers,
                                   allMembers |-> createGroupModal.allMembers]})
  /\ ev' = [tag |-> "createMember", name |-> createGroupModal.searchQuery]
  /\ UNCHANGED <<route, server, detailVars, home, createGroupModal>>

\* the form after handleCreateMember got newMember; the effect on
\* [searchQuery, allMembers] then runs
CreateMemberResult(f, t, newMember) ==
  Suggest([f EXCEPT !.selectedMembers = Append(t.selectedMembers,
                                               newMember.name),
                    !.allMembers = Append(t.allMembers, newMember),
                    !.searchQuery = <<>>,
                    !.showSuggestions = FALSE])

CreateMemberError == "Failed to create member. Please try again."

\* handleCreateMember after its await: the POST was answered, or failed.
\* A modal that is no longer mounted ignores the answer.
ServeCreateMember(t) ==
  /\ t.kind = "createMember"
  /\ \/ /\ server.nextMemberId <= MaxMemberId
        /\ server' = ServerCreateMember(server, t.name)
        /\ createGroupModal' =
             IF HomeMainView(home)
               THEN CreateMemberResult(createGroupModal, t,
                                       ServerNewMember(server, t.name))
               ELSE createGroupModal
        /\ ev' = [tag |-> "createMemberDone", name |-> t.name]
     \/ /\ createGroupModal' =
             IF HomeMainView(home)
               THEN [createGroupModal EXCEPT !.error = CreateMemberError]
               ELSE createGroupModal
        /\ ev' = [tag |-> "createMemberFailed", name |-> t.name]
        /\ UNCHANGED server
  /\ Return(t)
  /\ UNCHANGED <<route, detailVars, home>>

MinGroupMembers == 2

\* handleSubmit as it would be with the members counted first
GroupSubmitErrorMembersFirst(f) ==
  IF Len(f.selectedMembers) < MinGroupMembers
    THEN "Please add at least 2 members"
  ELSE IF Trim(f.name) = <<>> THEN "Please enter a group name"
  ELSE Null

\* the checks of handleSubmit in their order: the message of the first one
\* that fails, or Null
GroupSubmitError(f) ==
  IF Trim(f.name) = <<>> THEN "Please enter a group name"
  ELSE IF Len(f.selectedMembers) < MinGroupMembers
    THEN "Please add at least 2 members"
  ELSE Null

\* the form after a failed check
GroupSubmitRejected(f) == [f EXCEPT !.error = GroupSubmitError(f)]

\* the form after onSubmit was called
GroupSubmitAccepted(f) ==
  [f EXCEPT !.name = <<>>, !.selectedMembers = <<>>, !.error = Null]

\* the body of the POST
CreateGroupData(f) == [name |-> Trim(f.name), members |-> f.selectedMembers]

\* handleSubmit, and handleCreateGroup up to its await; handleCreateGroup
\* keeps the groups of the render it was created in
HandleSubmitGroup ==
  /\ GroupFormOpen
  /\ IF GroupSubmitError(createGroupModal) # Null
       THEN /\ createGroupModal' = GroupSubmitRejected(createGroupModal)
            /\ ev' = [tag |-> "groupSubmitRejected",
                      form |-> createGroupModal, tasks |-> tasks]
            /\ UNCHANGED tasks
       ELSE /\ Spawn([kind |-> "createGroup",
                      data |-> CreateGroupData(createGroupModal),
                      groups |-> home.groups])
            /\ createGroupModal' = GroupSubmitAccepted(createGroupModal)
            /\ ev' = [tag |-> "createGroup",
                      data |-> CreateGroupData(createGroupModal),
                      form |-> createGroupModal]
  /\ UNCHANGED <<route, server, detailVars, home>>

\* handleCreateGroup after its await: the POST was answered
ServeCreateGroup(t) ==
  /\ t.kind = "createGroup"
  /\ \/ /\ server.nextGroupId <= MaxGroupId
        /\ server' = ServerCreateGroup(server, t.data)
        /\ home' = [home EXCEPT
                      !.groups = Append(t.groups, ServerNewGroup(server, t.data)),
                      !.isCreateModalVisible = FALSE]
        /\ createGroupModal' =
             IF HomeMainView(home') THEN createGroupModal ELSE InitialGroupForm
        /\ ev' = [tag |-> "createGroupDone", before |-> home.groups,
                  group |-> ServerNewGroup(server, t.data)]
     \/ /\ home' = [home EXCEPT !.error = NetworkError]
        /\ createGroupModal' = InitialGroupForm
        /\ ev' = [tag |-> "apiFailed", call |-> "createGroup",
                  detail |-> detail, home |-> home]
        /\ UNCHANGED server
  /\ Return(t)
  /\ UNCHANGED <<route, detailVars>>

\* ------------------------------------------------------ the month buckets
\* the locales of the device: toLocaleString('default', ...) formats in the
\* device's locale
Locales == {"en-US", "es-ES"}

\* the long month names of a locale
LongMonths(locale) ==
  IF locale = "en-US"
    THEN <<"January", "February", "March", "April", "May", "June", "July",
           "August", "September", "October", "November", "December">>
    ELSE <<"enero", "febrero", "marzo", "abril", "mayo", "junio", "julio",
           "agosto", "septiembre", "octubre", "noviembre", "diciembre">>

\* date.toLocaleString('default', {month: 'long', year: 'numeric'}):
\* 'January 2025' in en-US, 'enero de 2025' in es-ES
MonthKey(locale, createdAt) ==
  <<LongMonths(locale)[createdAt.month],
    IF locale = "en-US" THEN " " ELSE " de ", createdAt.year>>

\* new Date(key).getTime() of a month key: the Date constructor reads an
\* English month name followed by a year as the first instant of that
\* month; any other text is an Invalid Date, whose time is NaN.  Times are
\* counted in months.
DateTime(key) ==
  IF key[2] = " " /\ \E m \in 1..12 : LongMonths("en-US")[m] = key[1]
    THEN Num(12 * key[3]
             + (CHOOSE m \in 1..12 : LongMonths("en-US")[m] = key[1]))
    ELSE NaN

\* the subtraction of two numbers that are finite or NaN
Minus(x, y) == IF x.k = "num" /\ y.k = "num" THEN Num(x.v - y.v) ELSE NaN

\* the reducer as it would be if it put the record in front of its bucket
PushExpenseFront(groups, monthKey, expense) ==
  IF \E i \in 1..Len(groups) : groups[i][1] = monthKey
    THEN [i \in 1..Len(groups) |->
            IF groups[i][1] = monthKey
              THEN <<monthKey, <<expense>> \o groups[i][2]>>
              ELSE groups[i]]
    ELSE Append(groups, <<monthKey, <<expense>>>>)

\* the reducer as it would be if it started the bucket anew for every record
PushExpenseOverwrite(groups, monthKey, expense) ==
  IF \E i \in 1..Len(groups) : groups[i][1] = monthKey
    THEN [i \in 1..Len(groups) |->
            IF groups[i][1] = monthKey
              THEN <<monthKey, <<expense>>>>
              ELSE groups[i]]
    ELSE Append(groups, <<monthKey, <<expense>>>>)

\* groups[monthKey].push(expense), after creating the bucket when there is
\* none: an object lists its keys in the order they were added
PushExpense(groups, monthKey, expense) ==
  IF \E i \in 1..Len(groups) : groups[i][1] = monthKey
    THEN [i \in 1..Len(groups) |->
            IF groups[i][1] = monthKey
              THEN <<monthKey, Append(groups[i][2], expense)>>
              ELSE groups[i]]
    ELSE Append(groups, <<monthKey, <<expense>>>>)

RECURSIVE Reduce(_, _, _)
\* expenses.reduce(...) from the accumulator groups
Reduce(locale, expenses, groups) ==
  IF expenses = <<>> THEN groups
  ELSE Reduce(locale, Tail(expenses),
              PushExpense(groups, MonthKey(locale, Head(expenses).createdAt),
                          Head(expenses)))

\* Object.entries(groupExpensesByMonth(expenses))
groupExpensesByMonth(locale, expenses) == Reduce(locale, expenses, <<>>)

\* the comparator of the bucket sort; sort reads a NaN as 0
CompareBuckets(a, b) ==
  LET v == Minus(DateTime(b[1]), DateTime(a[1]))
  IN  IF v.k = "num" THEN v.v ELSE 0

RECURSIVE InsertBucket(_, _)
\* x placed before the first entry it compares less than
InsertBucket(sorted, x) ==
  IF sorted = <<>> THEN <<x>>
  ELSE IF CompareBuckets(x, Head(sorted)) < 0 THEN <<x>> \o sorted
  ELSE <<Head(sorted)>> \o InsertBucket(Tail(sorted), x)

RECURSIVE SortBuckets(_, _)
\* Array.prototype.sort, which is stable, as an insertion sort
SortBuckets(entries, sorted) ==
  IF entries = <<>> THEN sorted
  ELSE SortBuckets(Tail(entries), InsertBucket(sorted, Head(entries)))

\* the buckets in the order the screen shows them
ShownBuckets(locale, expenses) ==
  SortBuckets(groupExpensesByMonth(locale, expenses), <<>>)

\* the screen renders its list of expenses on a device of some locale
RenderExpenses ==
  /\ route = DetailRoute
  /\ MainView(detail)
  /\ detail.expenses # <<>>
  /\ \E locale \in Locales :
       ev' = [tag |-> "rendered", locale |-> locale,
              expenses |-> detail.expenses,
              buckets |-> ShownBuckets(locale, detail.expenses)]
  /\ UNCHANGED <<server, detail, alert, addExpenseModal, tasks>>
  /\ UNCHANGED <<route, homeVars>>

\* ------------------------------------------------------------ the ledger
\* The ledger of a group of three members, in minor currency units.
LedgerMembers == <<<<"A">>, <<"B">>, <<"C">>>>

\* addRecord: the failure of the first check that fails, or Null
AddRecordError(srv, draft) ==
  IF ~(draft.amount.k = "num" /\ draft.amount.v > 0)
    THEN "InvalidAmountError"
  ELSE IF draft.kind = "expense" /\ Trim(draft.description) = <<>>
    THEN "MissingDescriptionError"
  ELSE IF ~Includes(srv.members, draft.paidBy) THEN "UnknownMemberError"
  ELSE IF draft.splitBetween = <<>> THEN "EmptySplitError"
  ELSE IF ~(Range(draft.splitBetween) \subseteq Range(srv.members))
    THEN "UnknownMemberError"
  ELSE IF draft.kind = "settlement" /\ Len(draft.splitBetween) # 1
    THEN "InvalidSettlementError"
  ELSE Null

\* the record addRecord appends
NewRecord(srv, draft) ==
  [id |-> srv.nextId, type |-> draft.kind, description |-> draft.description,
   amount |-> draft.amount.v, paidBy |-> draft.paidBy,
   splitBetween |-> draft.splitBetween, createdAt |-> ServerNow]

RECURSIVE Distribute(_, _, _)
\* one minor unit more for the members from place i on, until the
\* remainder rem is exhausted
Distribute(shares, rem, i) ==
  IF rem = 0 THEN shares
  ELSE Distribute([shares EXCEPT ![i] = @ + 1], rem - 1, i + 1)

\* the shares as they would be if the remainder were dropped
SharesFloor(amount, n) == [i \in 1..n |-> amount \div n]

\* the shares as they would be if the remainder went to the last members
SharesLast(amount, n) ==
  [i \in 1..n |-> (amount \div n) + (IF i > n - (amount % n) THEN 1 ELSE 0)]

\* the shares of the n members of a split set in an amount, in the order
\* of the split set
Shares(amount, n) ==
  Distribute([i \in 1..n |-> amount \div n], amount % n, 1)

\* the balances as they would be if a settlement only credited its recipient
RecordDeltaNoDebit(rec, m) ==
  IF rec.type = "expense"
    THEN (IF rec.paidBy = m THEN rec.amount ELSE 0)
         - (IF Includes(rec.splitBetween, m)
              THEN Shares(rec.amount, Len(rec.splitBetween))
                     [CHOOSE i \in 1..Len(rec.splitBetween) :
                        rec.splitBetween[i] = m]
              ELSE 0)
    ELSE IF rec.splitBetween[1] = m THEN rec.amount ELSE 0

\* what record rec adds to the balance of member m: an expense credits its
\* payer with the amount and debits every member of the split set with
\* that member's share; a settlement credits its recipient with the amount
\* and debits its payer with it
RecordDelta(rec, m) ==
  IF rec.type = "expense"
    THEN (IF rec.paidBy = m THEN rec.amount ELSE 0)
         - (IF Includes(rec.splitBetween, m)
              THEN Shares(rec.amount, Len(rec.splitBetween))
                     [CHOOSE i \in 1..Len(rec.splitBetween) :
                        rec.splitBetween[i] = m]
              ELSE 0)
    ELSE (IF rec.splitBetween[1] = m THEN rec.amount ELSE 0)
         - (IF rec.paidBy = m THEN rec.amount ELSE 0)

RECURSIVE BalanceOf(_, _)
BalanceOf(list, m) ==
  IF list = <<>> THEN 0
  ELSE RecordDelta(Head(list), m) + BalanceOf(Tail(list), m)

\* computeBalances: the net amount of every member
computeBalances(srv) ==
  [m \in Range(srv.members) |-> BalanceOf(srv.expenses, m)]

\* addRecord(draft): the draft is refused, or appended to the ledger
addRecord(draft) ==
  /\ server.nextId <= MaxLedgerLen
  /\ IF AddRecordError(server, draft) # Null
       THEN /\ ev' = [tag |-> "recordRefused",
                      error |-> AddRecordError(server, draft)]
            /\ UNCHANGED server
       ELSE /\ server' = [server EXCEPT
                            !.expenses = Append(@, NewRecord(server, draft)),
                            !.nextId = @ + 1]
            /\ ev' = [tag |-> "recordAdded",
                      record |-> NewRecord(server, draft)]
  /\ UNCHANGED <<route, detailVars, homeVars, tasks>>

\* ----------------------------------------------------------- the inputs
\* texts typed into the description field: only spaces, and a padded word
DescriptionInputs == {<<" ">>, <<" ", "x", " ">>}

\* texts typed into the amount field
AmountInputs ==
  {<<" ">>, <<"0">>, <<"2">>, <<"-", "1">>, <<"x">>, InfinityLiteral}

\* texts typed into the group name field
NameInputs == {<<" ">>, <<" ", "g", " ">>}

\* texts typed into the member search field
SearchInputs == {<<"a">>, <<"B">>}

\* one filling of a form that passes every check
ValidDescription == <<"x">>
ValidAmount == <<"2">>
ValidName == <<"h">>

\* ---------------------------------------------------------- specifications
InitServer ==
  [members |-> GroupMembers, expenses |-> InitialExpenses, nextId |-> 3,
   groups |-> InitialGroups, allMembers |-> InitialMembers, nextGroupId |-> 2,
   nextMemberId |-> 3]

InitialDetail ==
  [group |-> <<>>, expenses |-> <<>>, isLoading |-> TRUE, error |-> Null,
   isAddExpenseModalVisible |-> FALSE]

InitialHome ==
  [groups |-> <<>>, isLoading |-> TRUE, error |-> Null,
   isCreateModalVisible |-> FALSE]

\* the app after construction, on either screen
Init ==
  /\ route \in {HomeRoute, DetailRoute}
  /\ server = InitServer
  /\ detail = InitialDetail
  /\ alert = <<>>
  /\ addExpenseModal = InitialForm
  /\ home = InitialHome
  /\ createGroupModal = InitialGroupForm
  /\ tasks = EmptyBag
  /\ ev = NoEv

\* fetchData
Fetching ==
  \/ Focus
  \/ \E t \in Suspended : ServeGetById(t)
  \/ \E t \in Suspended : ServeGetExpenses(t)
  \/ \E t \in Suspended : FetchDataDone(t)

\* deleting a record
Deleting ==
  \/ \E x \in Range(detail.expenses) : PressTrash(x)
  \/ AlertCancel
  \/ AlertDelete
  \/ \E t \in Suspended : ServeDeleteExpense(t)
  \/ \E t \in Suspended : DeleteRefreshDone(t)

\* fetchGroups and fetchMembers
FetchingHome ==
  \/ FocusHome
  \/ \E t \in Suspended : ServeGetAll(t)
  \/ \E t \in Suspended : FetchGroupsDone(t)
  \/ \E t \in Suspended : ServeGetMembers(t)
  \/ \E t \in Suspended : FetchMembersDone(t)

\* Every handler of the two screens that calls the API; each form is filled
\* in one way that passes its checks.
Next ==
  \/ Fetching
  \/ Deleting
  \/ OpenModal
  \/ SetDescription(ValidDescription)
  \/ SetAmount(ValidAmount)
  \/ SetPaidBy(NameA)
  \/ HandleSubmit
  \/ \E t \in Suspended : ServeCreateExpense(t)
  \/ FetchingHome
  \/ OpenCreateModal
  \/ SetName(ValidName)
  \/ \E s \in SearchInputs : SetSearchQuery(s)
  \/ \E m \in Range(createGroupModal.suggestions) : HandleSelectMember(m)
  \/ HandleSubmitGroup
  \/ \E t \in Suspended : ServeCreateGroup(t)

Spec == Init /\ [][Next]_vars

\* Deleting records on the group detail screen.
InitDetail == Init /\ route = DetailRoute

NextDelete == Fetching \/ Deleting

SpecDelete == InitDetail /\ [][NextDelete]_vars

\* Deleting records while the screen comes into focus again: a focus fetch
\* runs beside the delete and its refresh.
NextRace == Fetching \/ Deleting \/ FocusDuring

SpecRace == InitDetail /\ [][NextRace]_vars

\* Adding expenses: the modal is opened and closed, members are toggled, a
\* payer is chosen, the form is submitted and the group is fetched again.
NextAdd ==
  \/ Fetching
  \/ OpenModal
  \/ CloseModal
  \/ SetDescription(ValidDescription)
  \/ SetAmount(ValidAmount)
  \/ \E m \in Range(GroupMembers) : SetPaidBy(m)
  \/ \E m \in Range(GroupMembers) : HandleToggleMember(m)
  \/ HandleSubmit
  \/ \E t \in Suspended : ServeCreateExpense(t)

SpecAdd == InitDetail /\ [][NextAdd]_vars

\* The forms alone: a modal is open over its loaded screen, any text is
\* typed and the form is submitted; the requests stay unanswered.
InitForm ==
  /\ route \in {HomeRoute, DetailRoute}
  /\ server = InitServer
  /\ detail = IF route = DetailRoute
                THEN [group |-> <<ServerGroup(InitServer)>>,
                      expenses |-> InitialExpenses, isLoading |-> FALSE,
                      error |-> Null, isAddExpenseModalVisible |-> TRUE]
                ELSE InitialDetail
  /\ alert = <<>>
  /\ addExpenseModal = IF route = DetailRoute
                         THEN [InitialForm EXCEPT
                                 !.selectedMembers = GroupMembers]
                         ELSE InitialForm
  /\ home = IF route = HomeRoute
              THEN [groups |-> InitialGroups, isLoading |-> FALSE,
                    error |-> Null, isCreateModalVisible |-> TRUE]
              ELSE InitialHome
  /\ createGroupModal = IF route = HomeRoute
                          THEN [InitialGroupForm EXCEPT
                                  !.allMembers = InitialMembers]
                          ELSE InitialGroupForm
  /\ tasks = EmptyBag
  /\ ev = NoEv

NextForm ==
  \/ \E s \in DescriptionInputs \cup {<<>>} : SetDescription(s)
  \/ \E s \in AmountInputs \cup {<<>>} : SetAmount(s)
  \/ \E m \in Range(GroupMembers) : SetPaidBy(m)
  \/ \E m \in Range(GroupMembers) : HandleToggleMember(m)
  \/ HandleSubmit
  \/ \E s \in NameInputs \cup {<<>>} : SetName(s)
  \/ \E s \in SearchInputs \cup {<<>>} : SetSearchQuery(s)
  \/ \E m \in Range(createGroupModal.suggestions) : HandleSelectMember(m)
  \/ \E m \in Range(createGroupModal.selectedMembers) : HandleRemoveMember(m)
  \/ HandleSubmitGroup

SpecForm == InitForm /\ [][NextForm]_vars

\* The month buckets: the server holds any list of up to MaxListLen records
\* of three consecutive months, in any order; the screen fetches and
\* renders it.
Months == {At(2024, 12), At(2025, 1), At(2025, 2)}

ExpenseAt(i, at) ==
  [id |-> i, type |-> "expense", description |-> <<"x">>, amount |-> 1,
   paidBy |-> NameA, splitBetween |-> <<NameA>>, createdAt |-> at]

ExpenseLists ==
  UNION {{[i \in 1..n |-> ExpenseAt(i, f[i])] : f \in [1..n -> Months]} :
         n \in 0..MaxListLen}

InitMonths ==
  /\ route = DetailRoute
  /\ \E list \in ExpenseLists :
       server = [InitServer EXCEPT !.expenses = list,
                                   !.nextId = Len(list) + 1]
  /\ detail = InitialDetail
  /\ alert = <<>>
  /\ addExpenseModal = InitialForm
  /\ home = InitialHome
  /\ createGroupModal = InitialGroupForm
  /\ tasks = EmptyBag
  /\ ev = NoEv

NextMonths == Fetching \/ RenderExpenses

SpecMonths == InitMonths /\ [][NextMonths]_vars

\* Choosing the members of a new group: the modal is open over the loaded
\* home screen while its fetchMembers is still unanswered; the user
\* searches, selects, creates and removes members.
MemberSearchInputs == {<<"a">>, <<"x">>}

InitMembers ==
  /\ route = HomeRoute
  /\ server = InitServer
  /\ detail = InitialDetail
  /\ alert = <<>>
  /\ addExpenseModal = InitialForm
  /\ home = [groups |-> InitialGroups, isLoading |-> FALSE, error |-> Null,
             isCreateModalVisible |-> TRUE]
  /\ createGroupModal = InitialGroupForm
  /\ tasks = SetToBag({[kind |-> "fetchMembers", r |-> Pending]})
  /\ ev = NoEv

NextMembers ==
  \/ \E t \in Suspended : ServeGetMembers(t)
  \/ \E t \in Suspended : FetchMembersDone(t)
  \/ \E s \in MemberSearchInputs : SetSearchQuery(s)
  \/ SearchFocus
  \/ \E m \in Range(createGroupModal.suggestions) : HandleSelectMember(m)
  \/ \E m \in Range(createGroupModal.selectedMembers) : HandleRemoveMember(m)
  \/ HandleCreateMember
  \/ \E t \in Suspended : ServeCreateMember(t)

SpecMembers == InitMembers /\ [][NextMembers]_vars

\* The ledger alone: expenses and settlements are added to an empty ledger.
\* The amounts leave the remainders 0, 1 and 2 when split in two or three.
LedgerAmounts == {Num(0), Num(2), Num(10000)}

\* the lists of members without repetition, in every order
SplitSets ==
  {sp \in UNION {[1..n -> Range(LedgerMembers)] : n \in 0..Len(LedgerMembers)} :
     \A i, j \in 1..Len(sp) : sp[i] = sp[j] => i = j}

Drafts ==
  [kind : {"expense", "settlement"}, description : {<<"x">>},
   amount : LedgerAmounts, paidBy : Range(LedgerMembers),
   splitBetween : SplitSets]

InitLedger ==
  /\ route = DetailRoute
  /\ server = [InitServer EXCEPT !.members = LedgerMembers,
                                 !.expenses = <<>>, !.nextId = 1]
  /\ detail = InitialDetail
  /\ alert = <<>>
  /\ addExpenseModal = InitialForm
  /\ home = InitialHome
  /\ createGroupModal = InitialGroupForm
  /\ tasks = EmptyBag
  /\ ev = NoEv

NextLedger == \E draft \in Drafts : addRecord(draft)

SpecLedger == InitLedger /\ [][NextLedger]_vars

\* Fetching on focus, with every request answered in the end and every
\* handler continued once its await is settled; records are deleted in
\* between, so that the answers differ.
NextFetch == Fetching \/ Deleting \/ FetchingHome

SpecFetch ==
  /\ Init
  /\ [][NextFetch]_vars
  /\ WF_vars(\E t \in Suspended : ServeGetById(t))
  /\ WF_vars(\E t \in Suspended : ServeGetExpenses(t))
  /\ WF_vars(\E t \in Suspended : FetchDataDone(t))
  /\ WF_vars(\E t \in Suspended : ServeGetAll(t))
  /\ WF_vars(\E t \in Suspended : FetchGroupsDone(t))

\* Creating groups while the home screen fetches again: the modal is open
\* over the loaded screen, which holds the members; the form is filled in
\* the one way that passes, submitted, and opened again.
InitGroups ==
  /\ route = HomeRoute
  /\ server = InitServer
  /\ detail = InitialDetail
  /\ alert = <<>>
  /\ addExpenseModal = InitialForm
  /\ home = [groups |-> InitialGroups, isLoading |-> FALSE, error |-> Null,
             isCreateModalVisible |-> TRUE]
  /\ createGroupModal = [InitialGroupForm EXCEPT !.allMembers = InitialMembers]
  /\ tasks = EmptyBag
  /\ ev = NoEv

NextGroups ==
  \/ OpenCreateModal
  \/ SetName(ValidName)
  \/ \E s \in SearchInputs : SetSearchQuery(s)
  \/ \E m \in Range(createGroupModal.suggestions) : HandleSelectMember(m)
  \/ HandleSubmitGroup
  \/ \E t \in Suspended : ServeCreateGroup(t)
  \/ FocusHomeDuring
  \/ \E t \in Suspended : ServeGetAll(t)
  \/ \E t \in Suspended : FetchGroupsDone(t)

SpecGroups == InitGroups /\ [][NextGroups]_vars

\* ---------------------------------------------------------- properties
\* ev.tag tells what the last step did:
\*   "createExpense"  handleSubmit called onSubmit and the POST was issued
\*   "submitRejected" a check of AddExpenseModal.handleSubmit failed
\*   "createGroup", "groupSubmitRejected"  the same for CreateGroupModal
\*   "deleteExpense"  the DELETE was issued
\*   "deleteDone"     onPress of the Delete button returned after two successes
\*   "addExpenseDone" handleAddExpense returned after the POST and both
\*                    requests of fetchData succeeded
\*   "apiFailed"      a handler caught the failure of a request

\* the total the screen shows
ShownTotal == detail.group[1].totalExpenses

\* C1: when the confirmed delete has succeeded, the total the screen shows is
\* the total it showed at the confirmation less the amount of the removed
\* record if that is an expense, and the same total if it is a settlement.
C1_DeleteLowersShownTotal ==
  ev.tag = "deleteDone" =>
    ShownTotal = ev.pre.shown
                 - (IF ev.pre.expense.type = "expense"
                      THEN ev.pre.expense.amount ELSE 0)

\* C2: when the confirmed delete and the fetch after it have succeeded, the
\* list of the screen holds no record with the deleted identifier, and it
\* holds every record that the server kept at the delete and still holds.
C2_DeletedRecordGone ==
  ev.tag = "deleteDone" =>
    /\ ~HasId(detail.expenses, ev.expenseId)
    /\ \A r \in Range(ev.pre.kept) \cap Range(server.expenses) :
         Includes(detail.expenses, r)

\* a delete completed and left another record in the list
C2_Witness ==
  /\ ev.tag = "deleteDone"
  /\ ev.pre.expense.id = 1
  /\ detail.expenses # <<>>
  /\ HasId(detail.expenses, 2)

\* C3: when handleAddExpense returns after a POST that succeeded (and a
\* fetch that succeeded), the request carried the amount, the payer and the
\* split list as entered, the total shown is the total shown at the
\* submission plus the amount, and the list holds the new record.
C3_AddRaisesShownTotal ==
  ev.tag = "addExpenseDone" =>
    /\ ev.pre.data.amount = Number(ev.pre.entered.amount)
    /\ ev.pre.data.paidBy = ev.pre.entered.paidBy
    /\ ev.pre.data.splitBetween = ev.pre.entered.splitBetween
    /\ ShownTotal = ev.pre.shown + ev.pre.data.amount.v
    /\ Includes(detail.expenses, ev.pre.created)

\* C4: a request is issued only for an amount that is a positive finite
\* number.
C4_NonPositiveAmountRejected ==
  ev.tag = "createExpense" =>
    LET n == Number(ev.form.amount)
    IN  n.k = "num" /\ n.v > 0

\* what the rules say of a form
OnlySpaces(s) == \A i \in 1..Len(s) : s[i] = " "
BadDescription(f) == OnlySpaces(f.description)
BadAmount(f) == OnlySpaces(f.amount) \/ Number(f.amount).k = "nan"
BadPayer(f) == OnlySpaces(f.paidBy)
BadSplit(f) == f.selectedMembers = <<>>

DescriptionMessage == "Please enter a description"
AmountMessage == "Please enter a valid amount"
PayerMessage == "Please select who paid"
SplitMessage == "Please select at least one member to split with"

\* C5 as stated: of the rules a rejected submission breaks, the one reported
\* is the first in the order amount, description, payer, split.
C5_AmountCheckedFirst ==
  ev.tag = "submitRejected" =>
    LET f == ev.form
    IN  addExpenseModal.error =
          IF BadAmount(f) THEN AmountMessage
          ELSE IF BadDescription(f) THEN DescriptionMessage
          ELSE IF BadPayer(f) THEN PayerMessage
          ELSE SplitMessage

\* C5 as amended: of the checks a rejected submission fails, the one
\* reported is the first in the order description, amount, payer, split.
C5_DescriptionCheckedFirst ==
  ev.tag = "submitRejected" =>
    LET f == ev.form
    IN  addExpenseModal.error =
          IF BadDescription(f) THEN DescriptionMessage
          ELSE IF BadAmount(f) THEN AmountMessage
          ELSE IF BadPayer(f) THEN PayerMessage
          ELSE SplitMessage

\* a submission with a blank description and a bad amount was rejected
C5_Witness ==
  /\ ev.tag = "submitRejected"
  /\ BadDescription(ev.form) /\ BadAmount(ev.form)
  /\ ev.form.amount # <<>>
  /\ addExpenseModal.error = DescriptionMessage

\* t is s without its leading and trailing spaces
IsTrimOf(t, s) ==
  /\ t # <<>> => t[1] # " " /\ t[Len(t)] # " "
  /\ \E i \in 0..Len(s) :
       /\ i + Len(t) <= Len(s)
       /\ t = SubSeq(s, i + 1, i + Len(t))
       /\ \A k \in (1..i) \cup ((i + Len(t) + 1)..Len(s)) : s[k] = " "

\* C6: a submission whose description is empty or only spaces issues no
\* request; the request of an accepted submission carries the description
\* without its leading and trailing spaces.
C6_DescriptionRequiredAndTrimmed ==
  /\ ev.tag = "createExpense" =>
       /\ ~OnlySpaces(ev.form.description)
       /\ IsTrimOf(ev.data.description, ev.form.description)
  /\ (ev.tag = "submitRejected" /\ OnlySpaces(ev.form.description)) =>
       tasks = ev.tasks

\* a padded description was accepted and sent without the padding
C6_Witness ==
  /\ ev.tag = "createExpense"
  /\ ev.form.description = <<" ", "x", " ">>
  /\ ev.data.description = <<"x">>

\* C7: every request issued carries a split list that is not empty and whose
\* names are all in the member list the screen holds at the submission.
C7_SplitWithinMembers ==
  ev.tag = "createExpense" =>
    /\ ev.data.splitBetween # <<>>
    /\ \A i \in 1..Len(ev.data.splitBetween) :
         Includes(ev.members, ev.data.splitBetween[i])

\* a request was issued after a member was toggled off and the group was
\* fetched a second time
C7_Witness ==
  /\ ev.tag = "createExpense"
  /\ Len(ev.data.splitBetween) = 1
  /\ server.nextId = 3

\* C8: every request issued names a payer that is in the member list the
\* screen holds at the submission.
C8_PayerWithinMembers ==
  ev.tag = "createExpense" => Includes(ev.members, ev.data.paidBy)

\* C9: a step in which a check of handleSubmit fails changes the error
\* message of the form and nothing else, and no request is issued.
C9_FailedSubmitKeepsForm ==
  [][/\ ev'.tag = "submitRejected" =>
          /\ addExpenseModal' =
               [addExpenseModal EXCEPT !.error = addExpenseModal'.error]
          /\ UNCHANGED <<route, server, detail, alert, home, createGroupModal,
                         tasks>>
     /\ ev'.tag = "groupSubmitRejected" =>
          /\ createGroupModal' =
               [createGroupModal EXCEPT !.error = createGroupModal'.error]
          /\ UNCHANGED <<route, server, detail, alert, home, addExpenseModal,
                         tasks>>]_vars

\* a filled-in form was rejected and still holds what was typed
C9_Witness ==
  /\ ev.tag = "submitRejected"
  /\ addExpenseModal.description = <<" ", "x", " ">>
  /\ addExpenseModal.amount = <<"x">>
  /\ addExpenseModal.paidBy = NameA
  /\ addExpenseModal.selectedMembers = <<NameB>>

\* C10: when a handler has caught the failure of a request, the error of
\* its screen is set and the screen holds the data it held before.
C10_FailureKeepsData ==
  ev.tag = "apiFailed" =>
    IF route = DetailRoute
      THEN /\ detail.error # Null
           /\ detail.group = ev.detail.group
           /\ detail.expenses = ev.detail.expenses
      ELSE /\ home.error # Null
           /\ home.groups = ev.home.groups

\* fetchData failed although getExpenses had answered with records the
\* screen did not hold
C10_Witness ==
  /\ ev.tag = "apiFailed"
  /\ ev.call = "fetchData"
  /\ ev.task.e.st = "ok"
  /\ ev.task.e.val[1] # detail.expenses

\* the month of a bucket, counted in months: that of its first record
BucketMonth(b) == 12 * b[2][1].createdAt.year + b[2][1].createdAt.month

\* C11: the month buckets the screen shows are in descending order of
\* (year, month), the most recent month first.
C11_BucketsDescending ==
  ev.tag = "rendered" =>
    \A i, j \in 1..Len(ev.buckets) :
      i < j => BucketMonth(ev.buckets[i]) > BucketMonth(ev.buckets[j])

\* the place of record x in list
IndexOf(list, x) == CHOOSE i \in 1..Len(list) : list[i] = x

\* C12: inside every bucket the records are in the order they have in the
\* list of expenses, before and after the buckets are sorted.
C12_OrderInsideBuckets ==
  ev.tag = "rendered" =>
    \A bs \in {ev.buckets, groupExpensesByMonth(ev.locale, ev.expenses)} :
      \A b \in 1..Len(bs) :
        \A p, q \in 1..Len(bs[b][2]) :
          p < q => IndexOf(ev.expenses, bs[b][2][p])
                     < IndexOf(ev.expenses, bs[b][2][q])

\* a list whose first and last records share a month that is not the month
\* of the record between them, and whose buckets the sort has moved
C12_Witness ==
  /\ ev.tag = "rendered"
  /\ Len(ev.expenses) = 3
  /\ ev.expenses[1].createdAt = ev.expenses[3].createdAt
  /\ ev.expenses[1].createdAt # ev.expenses[2].createdAt
  /\ ev.buckets # groupExpensesByMonth(ev.locale, ev.expenses)

RECURSIVE SumLengths(_)
SumLengths(bs) ==
  IF bs = <<>> THEN 0 ELSE Len(Head(bs)[2]) + SumLengths(Tail(bs))

\* C13: the buckets partition the list: every record is in exactly one
\* bucket, the one of its month; no bucket is empty; the buckets together
\* hold as many records as the list; the list the screen holds is as it was.
C13_BucketsPartition ==
  ev.tag = "rendered" =>
    LET bs == groupExpensesByMonth(ev.locale, ev.expenses)
        Places(x) == {<<b, p>> \in (1..Len(bs)) \X (1..Len(ev.expenses)) :
                        p <= Len(bs[b][2]) /\ bs[b][2][p] = x}
    IN  /\ \A i \in 1..Len(ev.expenses) :
             /\ Cardinality(Places(ev.expenses[i])) = 1
             /\ \A pl \in Places(ev.expenses[i]) :
                  bs[pl[1]][1] = MonthKey(ev.locale, ev.expenses[i].createdAt)
        /\ \A b \in 1..Len(bs) : bs[b][2] # <<>>
        /\ \A b, c \in 1..Len(bs) : b # c => bs[b][1] # bs[c][1]
        /\ SumLengths(bs) = Len(ev.expenses)
        /\ detail.expenses = ev.expenses

\* three records in two buckets
C13_Witness ==
  /\ ev.tag = "rendered"
  /\ Len(ev.expenses) = 3
  /\ Len(ev.buckets) = 2

\* no element of s occurs twice
Distinct(s) == \A i, j \in 1..Len(s) : s[i] = s[j] => i = j

\* C14: the selected members of CreateGroupModal are pairwise distinct, and
\* so are the members of every create-group request.
C14_SelectedDistinct ==
  /\ Distinct(createGroupModal.selectedMembers)
  /\ ev.tag = "createGroup" => Distinct(ev.data.members)

NameMessage == "Please enter a group name"
MembersMessage == "Please add at least 2 members"

\* C15: CreateGroupModal issues the create-group request only for a name
\* that has a character other than white space and at least 2 selected
\* members; otherwise no request is issued and the error is set, to the
\* message about the name when the name fails.
C15_GroupSubmitChecked ==
  /\ ev.tag = "createGroup" =>
       /\ ~OnlySpaces(ev.form.name)
       /\ Len(ev.form.selectedMembers) >= 2
  /\ ev.tag = "groupSubmitRejected" =>
       /\ OnlySpaces(ev.form.name) \/ Len(ev.form.selectedMembers) < 2
       /\ tasks = ev.tasks
       /\ createGroupModal.error =
            IF OnlySpaces(ev.form.name) THEN NameMessage ELSE MembersMessage

\* a blank name submitted with one selected member
C15_Witness ==
  /\ ev.tag = "groupSubmitRejected"
  /\ ev.form.name = <<" ">>
  /\ Len(ev.form.selectedMembers) = 1
  /\ createGroupModal.error = NameMessage

RECURSIVE SumOver(_, _)
\* the sum of f over the set ms
SumOver(f, ms) ==
  IF ms = {} THEN 0
  ELSE LET m == CHOOSE x \in ms : TRUE IN f[m] + SumOver(f, ms \ {m})

\* C16: after any additions the ledger accepted, the balances of all
\* members sum to zero.
C16_BalancesSumToZero ==
  SumOver(computeBalances(server), Range(server.members)) = 0

\* an expense whose amount leaves a remainder, followed by a settlement
C16_Witness ==
  /\ Len(server.expenses) = 2
  /\ server.expenses[1].type = "expense"
  /\ server.expenses[1].amount % Len(server.expenses[1].splitBetween) # 0
  /\ server.expenses[2].type = "settlement"
  /\ computeBalances(server)[<<"A">>] # 0

RECURSIVE SumSeq(_)
SumSeq(q) == IF q = <<>> THEN 0 ELSE Head(q) + SumSeq(Tail(q))

\* C17: the shares of an accepted expense of amount a split among n members
\* are floor(a/n), with one unit more for each of the first (a mod n)
\* members of the split set, and sum to a.
C17_SharesOfExpense ==
  ev.tag = "recordAdded" /\ ev.record.type = "expense" =>
    LET a == ev.record.amount
        n == Len(ev.record.splitBetween)
        shares == [i \in 1..n |->
                     (IF ev.record.paidBy = ev.record.splitBetween[i]
                        THEN a ELSE 0)
                     - RecordDelta(ev.record, ev.record.splitBetween[i])]
    IN  /\ \A i \in 1..n :
             shares[i] = (a \div n) + (IF i <= a % n THEN 1 ELSE 0)
        /\ SumSeq(shares) = a

\* an amount that leaves the remainder 2 when split in three
C17_Witness ==
  /\ ev.tag = "recordAdded" /\ ev.record.type = "expense"
  /\ Len(ev.record.splitBetween) = 3
  /\ ev.record.amount % 3 = 2

\* the ledger of the example: one expense of 10000 paid by A and split
\* among A, B and C
ExampleLedger ==
  /\ Len(server.expenses) = 1
  /\ server.expenses[1].type = "expense"
  /\ server.expenses[1].amount = 10000
  /\ server.expenses[1].paidBy = <<"A">>
  /\ server.expenses[1].splitBetween = LedgerMembers

\* C18: for the ledger of the example the balances are A: +6667, B: -3333,
\* C: -3334.
C18_ExampleBalances ==
  ExampleLedger =>
    computeBalances(server) =
      (<<"A">> :> 6667) @@ (<<"B">> :> -3333) @@ (<<"C">> :> -3334)

\* C18 as amended: the unit of the remainder goes to A, the first member of
\* the split set, so the balances are A: +6666, B: -3333, C: -3333, and
\* they sum to zero.
C18_ExampleBalancesFirstMember ==
  ExampleLedger =>
    /\ computeBalances(server) =
         (<<"A">> :> 6666) @@ (<<"B">> :> -3333) @@ (<<"C">> :> -3333)
    /\ SumOver(computeBalances(server), Range(server.members)) = 0

C18_Witness == ExampleLedger /\ ev.tag = "recordAdded"

\* a fetch of the screen is unanswered or not yet continued
FetchPending ==
  \E t \in Suspended : t.kind \in {"fetchData", "fetchGroups"}

\* the last step was the end of a fetch
FetchEnded ==
  \/ ev.tag = "fetched"
  \/ ev.tag = "apiFailed" /\ ev.call \in {"fetchData", "fetchGroups"}

\* C19: a fetch that is pending ends, and at its end the screen is not
\* loading; a fetch that ends in success leaves the screen holding the
\* answers.
C19_FetchEnds ==
  /\ FetchPending ~>
       (FetchEnded /\ ~(IF route = DetailRoute THEN detail.isLoading
                        ELSE home.isLoading))
  /\ [][\A t \in Suspended :
          /\ FetchDataDone(t) /\ t.g.st = "ok" /\ t.e.st = "ok" =>
               /\ detail'.group = t.g.val
               /\ detail'.expenses = t.e.val[1]
               /\ ~detail'.isLoading
          /\ FetchGroupsDone(t) /\ t.r.st = "ok" =>
               /\ home'.groups = t.r.val[1]
               /\ ~home'.isLoading]_vars

\* the first fetch of the group detail screen failed and the screen is no
\* longer loading
C19_Witness ==
  /\ ev.tag = "apiFailed" /\ ev.call = "fetchData"
  /\ detail.group = <<>>
  /\ ~detail.isLoading

\* the add-expense modal is shown
Visible(d) == MainView(d) /\ d.isAddExpenseModalVisible

\* C20: after a step in which the add-expense modal becomes visible, or in
\* which setGroup stores a member list while the modal stays visible, the
\* selected members are the members of the group.
C20_SplitReset ==
  [][Visible(detail')
     /\ (\/ ~Visible(detail)
         \/ \E t \in Suspended :
              FetchDataDone(t) /\ t.g.st = "ok" /\ t.e.st = "ok")
     => addExpenseModal'.selectedMembers = detail'.group[1].members]_vars

\* the group was fetched again while the modal was visible with some member
\* deselected, and the selection changed
C20_Witness ==
  /\ ev.tag = "fetched" /\ ev.reset
  /\ Visible(detail)
  /\ addExpenseModal.selectedMembers = detail.group[1].members

\* a DELETE is issued in the step
DeleteIssued ==
  \E t \in BagToSet(tasks') :
    t.kind = "deleteExpense" /\ CopiesIn(t, tasks') > CopiesIn(t, tasks)

\* C21: a DELETE is issued only in a step that closes the confirmation
\* dialog, for the record the dialog asked about; a step that opens the
\* dialog, or closes it without a DELETE, changes neither the screen's
\* state nor the server nor the requests in flight.
C21_DeleteOnlyAfterConfirm ==
  [][/\ DeleteIssued =>
          /\ alert # <<>> /\ alert' = <<>>
          /\ \E t \in BagToSet(tasks') :
               /\ t.kind = "deleteExpense"
               /\ CopiesIn(t, tasks') > CopiesIn(t, tasks)
               /\ t.expenseId = alert[1].expenseId
     /\ alert' # alert /\ ~DeleteIssued =>
          detail' = detail /\ server' = server /\ tasks' = tasks]_vars

\* after one record was deleted, the trash button of the record that is
\* left was tapped: the dialog is shown and no request is in flight
C21_Witness ==
  /\ alert # <<>>
  /\ tasks = EmptyBag
  /\ Len(detail.expenses) = 1
  /\ Len(server.expenses) = 1

\* C22: after a create-group request succeeded, the list of groups shown
\* ends with the new group and holds every group that was shown right
\* before the answer arrived, and the modal is closed.
C22_CreateKeepsGroups ==
  ev.tag = "createGroupDone" =>
    /\ home.groups # <<>>
    /\ home.groups[Len(home.groups)] = ev.group
    /\ \A g \in Range(ev.before) : Includes(home.groups, g)
    /\ ~home.isCreateModalVisible

\* a request of one of the kinds is issued in the step
Issued(kinds) ==
  \E t \in BagToSet(tasks') :
    t.kind \in kinds /\ CopiesIn(t, tasks') > CopiesIn(t, tasks)

\* C23: an error that is set stays set; while it is set the screen shows
\* neither its list nor its add button nor its modal, so that no dialog is
\* opened, no form changes and no create request is issued.
C23_ErrorSticks ==
  [][/\ detail.error # Null =>
          /\ detail'.error # Null
          /\ ~MainView(detail')
          /\ alert = <<>> => alert' = <<>>
          /\ addExpenseModal' = addExpenseModal
          /\ ~Issued({"createExpense"})
     /\ home.error # Null =>
          /\ home'.error # Null
          /\ ~HomeMainView(home')
          /\ createGroupModal' = createGroupModal
          /\ ~Issued({"createGroup", "createMember"})]_vars

\* the group detail screen holds an error and, from a later fetch that
\* succeeded, the group and its records
C23_Witness ==
  /\ ev.tag = "fetched"
  /\ detail.error # Null
  /\ detail.group # <<>>
  /\ detail.expenses = server.expenses

\* C24: a step in which a create-member request succeeds appends the new
\* member's name to the selection the modal held before the step, and the
\* new member to the allMembers it held, and changes neither otherwise.
C24_CreateMemberKeepsChanges ==
  [][server'.nextMemberId > server.nextMemberId /\ HomeMainView(home) =>
       LET newMember == server'.allMembers[Len(server'.allMembers)]
       IN  /\ createGroupModal'.selectedMembers =
                Append(createGroupModal.selectedMembers, newMember.name)
           /\ createGroupModal'.allMembers =
                Append(createGroupModal.allMembers, newMember)]_vars

\* C25: when no request of the group detail screen is in flight any more
\* and none has failed, the screen shows the server's current expense list.
C25_SettledListIsServers ==
  tasks = EmptyBag /\ MainView(detail) => detail.expenses = server.expenses

\* C26: right after a form was accepted and its create request issued, the
\* request is in flight and the form no longer passes its own checks, so a
\* second press of the submit button is rejected and issues no request.
C26_OneRequestPerForm ==
  /\ ev.tag = "createExpense" =>
       /\ \E t \in Suspended : t.kind = "createExpense" /\ t.data = ev.data
       /\ SubmitError(addExpenseModal) # Null
  /\ ev.tag = "createGroup" =>
       /\ \E t \in Suspended : t.kind = "createGroup" /\ t.data = ev.data
       /\ GroupSubmitError(createGroupModal) # Null
  /\ (ev.tag = "submitRejected" /\ ev.form = SubmitAccepted(ev.form)) =>
       tasks = ev.tasks
  /\ (ev.tag = "groupSubmitRejected"
        /\ ev.form = GroupSubmitAccepted(ev.form)) =>
       tasks = ev.tasks

\* the submit button of AddExpenseModal was pressed a second time while the
\* request of the first press was in flight
C26_Witness ==
  /\ ev.tag = "submitRejected"
  /\ ev.form = InitialForm
  /\ \E t \in Suspended : t.kind = "createExpense"
  /\ BagCardinality(tasks) = 1

\* the 'Create "..."' item is on the screen
CreateOffered ==
  /\ GroupFormOpen
  /\ createGroupModal.showSuggestions
  /\ createGroupModal.suggestions = <<>>

\* C27: a create-member request never carries an empty or whitespace-only
\* name, and the 'Create' item is on the screen only while the query is
\* non-empty after trimming and no member's name contains it.
C27_CreateNeedsName ==
  /\ ev.tag = "createMember" => Trim(ev.name) # <<>>
  /\ CreateOffered =>
       /\ Trim(createGroupModal.searchQuery) # <<>>
       /\ FilterMembers(createGroupModal.allMembers,
                        createGroupModal.searchQuery) = <<>>

====
